---- MODULE Spec2Model ----
(***************************************************************************)
(* State-machine model of src/app.py (Franchemo/cucunet): the Streamlit    *)
(* session's two chat histories, the prompt built by generate_response,    *)
(* the anonymous_posts table and its connections, the mood calendar and    *)
(* trend views, and the run of the script a button click starts.           *)
(*                                                                         *)
(* Strings of the source that are not ASCII are written with ASCII         *)
(* stand-ins; the comment next to each stand-in gives the source literal.  *)
(* Python's None is the reserved token None_ (no user text equals it).     *)
(* List positions are 0-based in the source and 1-based in sequences here; *)
(* every index that is an input of the program (a delete button's idx) is  *)
(* kept 0-based and converted where the list is touched.                   *)
(***************************************************************************)
EXTENDS Integers, Sequences, FiniteSets, TLC

VARIABLES
    session_state,  \* st.session_state: key -> value
    page,           \* the sidebar radio's selected page
    pc,             \* "idle", or "awaiting": a handler is blocked in client.chat.completions.create
    call,           \* the request handed to the LLM boundary by the blocked handler, or NoCall
    last,           \* what the last handler run did (observer of the run's inputs and outcome)
    posts,          \* table anonymous_posts, rows in rowid order
    seq,            \* sqlite_sequence value of anonymous_posts (AUTOINCREMENT)
    now,            \* the database clock, in seconds (CURRENT_TIMESTAMP)
    listed,         \* the rows get_anonymous_posts() returned to the page or caller last
    conns,          \* per session, its open database connection: position and uncommitted rows
    run             \* the run of the script started by a button click: where it is, what it did

vars == <<session_state, page, pc, call, last, posts, seq, now, listed, conns, run>>

----------------------------------------------------------------------------
(* Bounds of the model *)

\* messages held by the two topic histories together
MaxMsgs == 4
\* messages seeded under one history key when generate_response is driven directly
MaxSeed == 12
\* rows of anonymous_posts
MaxPosts == 3
\* last year of the months a calendar is drawn for
MaxYear == 2026

----------------------------------------------------------------------------
(* Program constants *)

None_ == "None"

\* chat_history[-10:]
WindowSize == 10

\* `mood_score = ... if mood else 50`
DefaultMoodScore == 50

\* f"发生错误：{str(e)}"
ErrPrefix == "ERROR:"
\* f"用户背景信息：{context}"
ContextPrefix == "user_background:"

\* the sidebar radio's options: "文化适应加油站⛽️", "暖心聊聊天💕", "匿名树洞🌳", "我的故事"
PageCultural == "page_cultural"
PageEmotional == "page_emotional"
PageTreeHole == "page_treehole"
PageHistory == "page_history"
Pages == <<PageCultural, PageEmotional, PageTreeHole, PageHistory>>

\* MOOD_COLORS keys: "非常开心 😊", "心情不错 🙂", "一般般 😐", "有点低落 😔", "很难过 😢"
MoodLabels == <<"very_happy", "good", "so_so", "a_bit_low", "very_sad">>

MOOD_COLORS ==
    [m \in {MoodLabels[i] : i \in 1..Len(MoodLabels)} |->
        CASE m = "very_happy" -> [color |-> "#FFD700", score |-> 100]
          [] m = "good"       -> [color |-> "#98FB98", score |-> 75]
          [] m = "so_so"      -> [color |-> "#87CEEB", score |-> 50]
          [] m = "a_bit_low"  -> [color |-> "#DDA0DD", score |-> 25]
          [] m = "very_sad"   -> [color |-> "#CD5C5C", score |-> 0]]

----------------------------------------------------------------------------
(* Inputs *)

\* what the user types into a chat input or the post text area (never empty
\* for a chat input: `if user_input:`)
UserTexts == {"happy", "sad"}
\* completions the LLM boundary returns, and messages of the exceptions it raises
Replies == {"r1"}
Failures == {"e1"}

\* what the user leaves in the text area "当前状态描述": nothing, or a text
StatusTexts == {"", "new here"}
\* the slider's options the user moves to, two of "非常困扰", "有点焦虑", "一般",
\* "还好", "很乐观": "一般" and "很乐观"
EmotionalStates == {"neutral", "optimistic"}

\* dates picked in the date input: two days of March 2024, the last day of a
\* leap February and of a 30-day month, and the 15th of March a year before
Dates == {<<2024, 3, 1>>, <<2024, 3, 15>>, <<2024, 2, 29>>, <<2024, 4, 30>>, <<2023, 3, 15>>}
\* no date given (post_date=None), and what pandas reads back for NULL
NoDate == << >>

Form(content, category, mood, date) ==
    [content |-> content, category |-> category, mood |-> mood, date |-> date]

\* the post forms submitted with the "发布" button: text area, category
\* selectbox (two of its four options, "学业压力" and "其他"), mood slider (its
\* five options), date input.  Both texts come with several moods, both dates
\* with several moods, and the text area is also left empty.
Forms ==
    { Form("happy", "study_pressure", "very_happy", <<2024, 3, 1>>),
      Form("happy", "other", "very_sad", <<2024, 3, 1>>),
      Form("sad", "other", "very_sad", <<2024, 3, 15>>),
      Form("sad", "study_pressure", "so_so", <<2024, 3, 15>>),
      Form("happy", "other", "good", <<2024, 3, 15>>),
      Form("sad", "other", "a_bit_low", <<2024, 3, 1>>),
      Form("", "other", "so_so", <<2024, 3, 1>>),
      Form("", "study_pressure", "very_happy", <<2024, 3, 15>>) }

----------------------------------------------------------------------------
(* analyze_emotion: TextBlob's polarity, in tenths.  TextBlob("happy") has
   polarity 0.8, TextBlob("sad") -0.5, and a text with no lexicon word
   (the empty text included) 0.0. *)

analyze_emotion(text) ==
    [polarity |-> CASE text = "happy" -> 8
                    [] text = "sad" -> -5
                    [] OTHER -> 0]

\* f"{polarity}" of a float with one decimal: "0.8", "-0.5", "0.0"
FormatFloat(tenths) ==
    LET a == IF tenths < 0 THEN -tenths ELSE tenths
    IN  (IF tenths < 0 THEN "-" ELSE "") \o ToString(a \div 10) \o "." \o ToString(a % 10)

----------------------------------------------------------------------------
(* Session state *)

Msg(role, content) == [role |-> role, content |-> content]

\* main(), lines 328-342 and the keyed widgets of the first page: the session
\* after the first run of the script
InitialSession ==
    [k \in {"cultural_messages", "emotional_messages", "current_status",
            "situation_type", "emotional_state", "other_situation_enabled",
            "other_situation_text", "status_input", "situation_input"} |->
        CASE k = "cultural_messages" -> << >>
          [] k = "emotional_messages" -> << >>
          [] k = "current_status" -> ""
          \* "学习相关"
          [] k = "situation_type" -> "study"
          \* "一般"
          [] k = "emotional_state" -> "neutral"
          [] k = "other_situation_enabled" -> FALSE
          [] k = "other_situation_text" -> ""
          [] k = "status_input" -> ""
          \* the selectbox's first option, "学习相关（如图书馆使用、与教授沟通等）"
          [] k = "situation_input" -> "study (library, professors, ...)"]

\* SITUATION_TYPES, lines 30-35: the selectbox's options and their short names:
\* "学习相关（如图书馆使用、与教授沟通等）": "学习相关",
\* "文化适应（如理解美国人的社交习惯）": "文化适应",
\* "生活问题（如住宿、交通、饮食等）": "生活问题", "其他": "其他"
SituationOptions ==
    << "study (library, professors, ...)", "culture (social habits)",
       "life (housing, transport, food)", "other" >>

SITUATION_TYPES ==
    [o \in {SituationOptions[i] : i \in 1..Len(SituationOptions)} |->
        CASE o = "study (library, professors, ...)" -> "study"
          [] o = "culture (social habits)" -> "culture"
          [] o = "life (housing, transport, food)" -> "life"
          [] o = "other" -> "other"]

\* the keyed widgets only the cultural page draws: the text area (lines
\* 364-369), the selectbox (376-381) and the text input (384-390)
CulturalWidgetKeys == {"status_input", "situation_input", "other_situation_text"}

\* the keys lines 328-342 create when the session does not hold them
InitKeys == {"cultural_messages", "emotional_messages", "current_status",
             "situation_type", "emotional_state", "other_situation_enabled",
             "other_situation_text"}

\* lines 328-342, at the start of every run
session_init(ss) ==
    [k \in DOMAIN ss \cup InitKeys |->
        IF k \in DOMAIN ss THEN ss[k] ELSE InitialSession[k]]

\* the query types generate_response knows
QueryTypes == {"cultural_advice", "emotion_support", "anonymous_sharing"}

\* get_chat_messages: the session after the call (the key is created when absent)
session_after_get(ss, message_type) ==
    IF message_type \in DOMAIN ss THEN ss ELSE ss @@ (message_type :> <<>>)

\* get_chat_messages: the list returned
get_chat_messages(ss, message_type) ==
    session_after_get(ss, message_type)[message_type]

\* f"{query_type}_messages"
history_key(query_type) == query_type \o "_messages"

----------------------------------------------------------------------------
(* generate_response, up to the call of the LLM boundary *)

\* the three instruction templates; emotion_support embeds the live polarity
system_message(query_type, prompt) ==
    CASE query_type = "cultural_advice" -> "SYSTEM cultural_advice"
      [] query_type = "emotion_support" ->
            "SYSTEM emotion_support polarity=" \o FormatFloat(analyze_emotion(prompt).polarity)
      [] query_type = "anonymous_sharing" -> "SYSTEM anonymous_sharing"

\* Python truthiness of `context` (None and "" are falsy)
Truthy(s) == s # None_ /\ s # ""

\* a generate_response that adds the instruction template inside
\* `if context:` for every topic
leading_messages_context_only(prompt, query_type, context) ==
    IF Truthy(context)
    THEN << Msg("system", system_message(query_type, prompt)),
            Msg("user", ContextPrefix \o context) >>
    ELSE << >>

\* lines 108-145: the messages added before the user's prompt
leading_messages(prompt, query_type, context) ==
    CASE query_type = "cultural_advice" ->
            IF Truthy(context)
            THEN << Msg("system", system_message(query_type, prompt)),
                    Msg("user", ContextPrefix \o context) >>
            ELSE << >>
      [] query_type \in {"emotion_support", "anonymous_sharing"} ->
            << Msg("system", system_message(query_type, prompt)) >>
      [] OTHER -> << >>

\* a window cut from the front of the list, chat_history[:10]
recent_history_oldest(chat_history) ==
    LET n == Len(chat_history)
    IN  [k \in 1..(IF n < WindowSize THEN n ELSE WindowSize) |->
            Msg(chat_history[k].role, chat_history[k].content)]

\* chat_history[-10:], each message copied as {"role", "content"}
recent_history(chat_history) ==
    LET n == Len(chat_history)
        start == IF n - WindowSize < 0 THEN 0 ELSE n - WindowSize
    IN  [k \in 1..(n - start) |->
            Msg(chat_history[start + k].role, chat_history[start + k].content)]

\* a list that starts with the user's prompt
build_messages_prompt_first(prompt, query_type, context, ss) ==
    << Msg("user", prompt) >>
        \o leading_messages(prompt, query_type, context)
        \o recent_history(get_chat_messages(ss, history_key(query_type)))

\* lines 108-157: the list passed as messages= to client.chat.completions.create
build_messages(prompt, query_type, context, ss) ==
    leading_messages(prompt, query_type, context)
        \o << Msg("user", prompt) >>
        \o recent_history(get_chat_messages(ss, history_key(query_type)))

\* a generate_response without the try/except: the exception leaves it
generate_response_result_raising(outcome) ==
    IF outcome.ok
    THEN [kind |-> "return", value |-> outcome.text]
    ELSE [kind |-> "raise", value |-> outcome.text]

\* lines 159-170: what generate_response hands back for an outcome of the
\* boundary call: [ok, text] a completion, [ok |-> FALSE, text] an exception
generate_response_result(outcome) ==
    IF outcome.ok
    THEN [kind |-> "return", value |-> outcome.text]
    ELSE [kind |-> "return", value |-> ErrPrefix \o outcome.text]

----------------------------------------------------------------------------
(* The post store: table anonymous_posts *)

Pad2(n) == IF n < 10 THEN "0" \o ToString(n) ELSE ToString(n)

\* sqlite3's adapter for datetime.date: the ISO text; None is stored as NULL
adapt_date(d) ==
    IF d = NoDate THEN None_
    ELSE ToString(d[1]) \o "-" \o Pad2(d[2]) \o "-" \o Pad2(d[3])

\* read_sql_query(..., parse_dates=['post_date']): the date an ISO text names
parse_date(text) ==
    IF text = None_ THEN NoDate
    ELSE CHOOSE d \in Dates : adapt_date(d) = text

\* a rowid that is not advanced past the last one handed out
next_rowid_stuck(last_rowid) == last_rowid

\* INTEGER PRIMARY KEY AUTOINCREMENT: one more than the largest rowid ever used
next_rowid(last_rowid) == last_rowid + 1

\* a score that ignores the mood chosen
mood_score_default(mood) == DefaultMoodScore

\* line 79: MOOD_COLORS[mood]["score"] if mood else 50
mood_score(mood) ==
    IF Truthy(mood) THEN MOOD_COLORS[mood].score ELSE DefaultMoodScore

\* line 84: MOOD_COLORS[mood]["color"] if mood else None
stored_mood_color(mood) ==
    IF Truthy(mood) THEN MOOD_COLORS[mood].color ELSE None_

\* save_anonymous_post on the table `tbl` with rowid counter `last_rowid` at
\* time `clock`.  The sentiment of the content is computed (line 74) and not
\* used; the column sentiment_score receives mood_score.  A mood that is
\* truthy and no key of MOOD_COLORS raises KeyError at line 79, before the
\* INSERT.
save_anonymous_post(tbl, last_rowid, clock, content, category, mood, mood_color, post_date) ==
    LET sentiment == analyze_emotion(content)
    IN  IF Truthy(mood) /\ mood \notin DOMAIN MOOD_COLORS
        THEN [kind |-> "raise", value |-> "KeyError", posts |-> tbl, seq |-> last_rowid]
        ELSE [kind |-> "return", value |-> None_,
              posts |-> Append(tbl,
                  [id |-> next_rowid(last_rowid),
                   content |-> content,
                   category |-> category,
                   mood |-> mood,
                   mood_color |-> stored_mood_color(mood),
                   post_date |-> adapt_date(post_date),
                   sentiment_score |-> mood_score(mood),
                   timestamp |-> clock]),
              seq |-> next_rowid(last_rowid)]

\* an ordering by timestamp ascending
ListedBefore_ascending(tbl, i, j) ==
    \/ tbl[i].timestamp < tbl[j].timestamp
    \/ tbl[i].timestamp = tbl[j].timestamp /\ i < j

\* ORDER BY timestamp DESC over a scan in rowid order: of the rows at
\* positions i and j of the table, the one at i is listed first when it is
\* newer, or of the same second and scanned first (SQLite's sorter keeps the
\* scan order of equal keys)
ListedBefore(tbl, i, j) ==
    \/ tbl[i].timestamp > tbl[j].timestamp
    \/ tbl[i].timestamp = tbl[j].timestamp /\ i < j

\* get_anonymous_posts: every row, ordered, post_date parsed
get_anonymous_posts(tbl) ==
    [k \in 1..Len(tbl) |->
        LET i == CHOOSE i \in 1..Len(tbl) :
                    Cardinality({j \in 1..Len(tbl) : ListedBefore(tbl, j, i)}) = k - 1
        IN  [tbl[i] EXCEPT !.post_date = parse_date(@)]]

----------------------------------------------------------------------------
(* Connections to the database file.  Every call of save_anonymous_post and
   get_anonymous_posts opens its own connection (lines 75, 90); a session is
   one browser tab running main() *)

\* two sessions that publish and one that lists
Writers == {"s1", "s2"}
Reader == "s3"
Sessions == Writers \cup {Reader}

\* sqlite3.connect's default timeout (line 75): the seconds a statement waits
\* in SQLite's busy handler for a lock before it raises OperationalError
BusyTimeout == 5

\* position "closed": no connection open.  "inserted": the INSERT of line 81
\* has run inside the implicit transaction and its row is not committed.
\* "reading": the SELECT of line 92 is running.  "waiting_insert" and
\* "waiting_commit": the statement of line 81 or line 84 found its lock taken
\* at the clock value `since` and waits in the busy handler.  "raised":
\* conn.commit() raised, conn.close() of line 85 was not reached, and the
\* connection object, not yet collected, still holds its transaction.
\* `failed` counts the calls of save_anonymous_post that raised.
ClosedConn == [pc |-> "closed", pending |-> << >>, saved |-> 0, since |-> 0, failed |-> 0]
NoConns == [s \in Sessions |-> ClosedConn]

\* an INSERT that takes no lock on the database file
reserved_ignored(cs, s) == TRUE

\* SQLite's RESERVED lock, taken by the first write of a transaction: granted
\* when no other connection has a write transaction open (the caller waits
\* in the busy handler otherwise)
reserved_free(cs, s) ==
    \A o \in DOMAIN cs \ {s} : cs[o].pc \notin {"inserted", "waiting_commit", "raised"}

\* SQLite's EXCLUSIVE lock, taken by COMMIT: granted when no other connection
\* is reading
exclusive_free(cs, s) == \A o \in DOMAIN cs \ {s} : cs[o].pc # "reading"

\* SQLite's SHARED lock, taken by a SELECT: granted when no connection holds
\* the PENDING lock of a COMMIT that waits, or has waited in vain, for the
\* readers to finish
shared_free(cs, s) ==
    \A o \in DOMAIN cs \ {s} : cs[o].pc \notin {"waiting_commit", "raised"}

\* the lock a waiting statement waits for is free
lock_free(cs, s) ==
    IF cs[s].pc = "waiting_insert" THEN reserved_free(cs, s) ELSE exclusive_free(cs, s)

\* the connections waiting in the busy handler
Waiting(cs) == {s \in DOMAIN cs : cs[s].pc \in {"waiting_insert", "waiting_commit"}}

----------------------------------------------------------------------------

(* The mood views of the tree-hole page: create_mood_calendar *)

\* a date is <<year, month, day>>; the arithmetic is datetime.date's
is_leap(year) == year % 4 = 0 /\ (year % 100 # 0 \/ year % 400 = 0)

\* a month length that ignores the month: every month 30 days long
days_in_month_thirty(year, month) == 30

\* pd.Period(current_month).days_in_month
days_in_month(year, month) ==
    CASE month = 2 -> IF is_leap(year) THEN 29 ELSE 28
      [] month \in {4, 6, 9, 11} -> 30
      [] OTHER -> 31

\* days of the year before the first of the month (datetime's _DAYS_BEFORE_MONTH,
\* one more after February of a leap year)
days_before_month(year, month) ==
    <<0, 31, 59, 90, 120, 151, 181, 212, 243, 273, 304, 334>>[month]
        + (IF month > 2 /\ is_leap(year) THEN 1 ELSE 0)

\* date.toordinal(): 0001-01-01, a Monday, is day 1
ymd2ord(d) ==
    LET y == d[1] - 1
    IN  y * 365 + y \div 4 - y \div 100 + y \div 400 + days_before_month(d[1], d[2]) + d[3]

\* the ordinal of the Monday that starts ISO week 1 of `year`: the week that
\* holds the year's first Thursday
isoweek1monday(year) ==
    LET firstday == ymd2ord(<<year, 1, 1>>)
        firstweekday == (firstday + 6) % 7
        week1monday == firstday - firstweekday
    IN  IF firstweekday > 3 THEN week1monday + 7 ELSE week1monday

\* d.isocalendar()[1]: the ISO week number of the date, 1..53
isocalendar_week(d) ==
    LET today == ymd2ord(d)
        week1monday == isoweek1monday(d[1])
    IN  IF today < week1monday
        THEN (today - isoweek1monday(d[1] - 1)) \div 7 + 1
        ELSE IF (today - week1monday) \div 7 >= 52 /\ today >= isoweek1monday(d[1] + 1)
             THEN 1
             ELSE (today - week1monday) \div 7 + 1

\* [d.isocalendar()[1] for d in date_range]: the week numbers of the days
\* 1..num_days of the month, as a list
RECURSIVE isocalendar_weeks(_, _, _)
isocalendar_weeks(year, month, num_days) ==
    IF num_days = 0 THEN << >>
    ELSE Append(isocalendar_weeks(year, month, num_days - 1),
                isocalendar_week(<<year, month, num_days>>))

\* min(weeks)
min_of(s) ==
    CHOOSE m \in {s[k] : k \in DOMAIN s} : \A k \in DOMAIN s : m <= s[k]

\* the colour of a day with no post
NoDataColor == "#EAEAEA"

\* a cell coloured from the last row of the day's data, day_data.iloc[-1]
cell_color_oldest(day_data) ==
    IF Len(day_data) > 0 THEN day_data[Len(day_data)].mood_color ELSE NoDataColor

\* lines 209-216: day_data.iloc[0]['mood_color'], or the neutral colour
cell_color(day_data) ==
    IF Len(day_data) > 0 THEN day_data[1].mood_color ELSE NoDataColor

\* .dt.to_period('M') of a date
to_period_M(d) == <<d[1], d[2]>>

\* create_mood_calendar(posts) on the rows a listing returned.  No rows: None.
\* Otherwise the month is the one of the first row, and the figure has one
\* trace per day of it, at x = week column, y = day of month.  A first row
\* without a date (NaT) gives year and month nan, and the f-string of line
\* 195 raises ValueError.
create_mood_calendar(df) ==
    IF Len(df) = 0 THEN [kind |-> "none", traces |-> << >>]
    ELSE IF df[1].post_date = NoDate THEN [kind |-> "raise", traces |-> << >>]
    ELSE
        LET current_month == to_period_M(df[1].post_date)
            month_data == SelectSeq(df, LAMBDA r :
                              r.post_date # NoDate /\ to_period_M(r.post_date) = current_month)
            year == current_month[1]
            month == current_month[2]
            num_days == days_in_month(year, month)
            weeks == isocalendar_weeks(year, month, num_days)
            min_week == min_of(weeks)
        IN  [kind |-> "figure",
             traces |-> [day \in 1..num_days |->
                 LET day_data == SelectSeq(month_data, LAMBDA r :
                                     r.post_date = <<year, month, day>>)
                 IN  [x |-> weeks[day] - min_week,
                      y |-> day,
                      date |-> <<year, month, day>>,
                      color |-> cell_color(day_data)]]]

----------------------------------------------------------------------------
(* The mood views of the tree-hole page: create_mood_tracking_graph *)

\* the order of sort_values on a datetime column: ascending, NaT last
date_before_or_same(a, b) ==
    \/ b = NoDate
    \/ a # NoDate /\ ymd2ord(a) <= ymd2ord(b)

\* a frame left in the order it came in
sort_values_skipped(df) == { [k \in 1..Len(df) |-> k] }

\* mood_data.sort_values('post_date'): the row orders the sort may give.  The
\* rows come out ascending by date; the default kind, quicksort, promises no
\* order among rows of the same date.
sort_values_post_date(df) ==
    { p \in Permutations(1..Len(df)) :
        \A k \in 1..(Len(df) - 1) :
            date_before_or_same(df[p[k]].post_date, df[p[k + 1]].post_date) }

\* create_mood_tracking_graph(posts): the figures it may return.  No rows:
\* None.  Otherwise one trace whose k-th point is the k-th row of the sorted
\* frame: x the post date, y the sentiment_score column, marker colour the
\* mood_color column, hover text the mood.
create_mood_tracking_graph(df) ==
    IF Len(df) = 0 THEN { [kind |-> "none", points |-> << >>] }
    ELSE { [kind |-> "figure",
            points |-> [k \in 1..Len(df) |->
                [x |-> df[p[k]].post_date,
                 y |-> df[p[k]].sentiment_score,
                 color |-> df[p[k]].mood_color,
                 text |-> df[p[k]].mood]]] : p \in sort_values_post_date(df) }

----------------------------------------------------------------------------

(* A run of the script taken button by button.  st.button(key) is True in
   the one run started by a click on that button, and only for that button;
   Streamlit resets it when the run ends, also when st.experimental_rerun()
   ends it. *)

\* the delete loops of a page's script, in script order: <<button key prefix,
\* history key>>
PageLoops(p) ==
    CASE p = PageCultural -> << <<"delete_cultural", "cultural_messages">> >>
      [] p = PageEmotional -> << <<"delete_emotional", "emotional_messages">> >>
      [] p = PageHistory -> << <<"delete_cultural_history", "cultural_messages">>,
                               <<"delete_emotional_history", "emotional_messages">> >>
      [] OTHER -> << >>

\* the sidebar buttons that end every page's script: <<name, history key>>
SidebarButtons == << <<"clear_cultural", "cultural_messages">>,
                     <<"clear_emotional", "emotional_messages">> >>

\* key=f"delete_cultural_{idx}" and its like
ButtonKey(prefix, idx) == prefix \o "_" \o ToString(idx)

\* the buttons on the screen whose handler removes messages: the delete
\* buttons of the page's loops (lines 410, 458, 613, 625) and the two sidebar
\* buttons (lines 630, 634).  The tree-hole page's "发布" (line 518) and
\* "提供支持" (line 552) buttons are the actions Publish and Support.
RemovalButtons(p, ss) ==
    (UNION { { ButtonKey(PageLoops(p)[l][1], idx) :
                 idx \in 0..(Len(ss[PageLoops(p)[l][2]]) - 1) } :
             l \in 1..Len(PageLoops(p)) })
        \cup { SidebarButtons[b][1] : b \in 1..Len(SidebarButtons) }

\* the keyed buttons a run of page p draws: the delete buttons of the page's
\* loops (lines 410, 458, 613, 625) and, on the tree-hole page, one support
\* button per listed post (line 552).  The two sidebar buttons have no key.
KeyedButtons(p, ss, rows) ==
    (UNION { { ButtonKey(PageLoops(p)[l][1], idx) :
                 idx \in 0..(Len(ss[PageLoops(p)[l][2]]) - 1) } :
             l \in 1..Len(PageLoops(p)) })
        \cup (IF p = PageTreeHole
              THEN { ButtonKey("support", rows[i].id) : i \in 1..Len(rows) }
              ELSE {})

\* the keyed widgets a run of page p draws
WidgetKeys(p, ss, rows) ==
    (IF p = PageCultural THEN CulturalWidgetKeys ELSE {}) \cup KeyedButtons(p, ss, rows)

\* the keys that belong to no widget: those of lines 328-340 and the lists
\* get_chat_messages creates
ApiKeys ==
    (InitKeys \ CulturalWidgetKeys) \cup {history_key(q) : q \in QueryTypes}

\* the session when a run that drew the keyed widgets `drawn` ends with the
\* session ss, at the end of the script or at st.experimental_rerun().
\* Streamlit holds the value of every keyed widget under its key: a widget
\* the run drew is there (a new text area with value=current_status, a new
\* selectbox with its first option, a button with False: a button is True
\* in the run its click started only); the key of a widget the run did not
\* draw is dropped, unless the run itself assigned the key (`assigned`: the
\* value then lasts until the end of the next run).
script_ended(ss, drawn, assigned) ==
    LET kept == (DOMAIN ss \cap ApiKeys) \cup drawn \cup (DOMAIN ss \cap assigned)
    IN  [k \in kept |->
            IF k \in drawn \ CulturalWidgetKeys THEN FALSE
            ELSE IF k \in DOMAIN ss THEN ss[k]
            ELSE IF k = "status_input" THEN ss["current_status"]
            ELSE IF k = "situation_input" THEN SituationOptions[1]
            ELSE InitialSession[k]]

\* the session when a run that drew page p over the listing `rows` reaches
\* the end of the script with the session ss
script_finished(ss, p, rows, assigned) ==
    script_ended(ss, WidgetKeys(p, ss, rows), assigned)

\* the keyed widgets a run of page p has drawn when it reaches the button of
\* 0-based position k in the page's loop number s: the page's inputs, every
\* button of the loops before, and the buttons 0..k of this loop
DrawnUpTo(p, ss, s, k) ==
    (IF p = PageCultural THEN CulturalWidgetKeys ELSE {})
        \cup (UNION { { ButtonKey(PageLoops(p)[l][1], idx) :
                          idx \in 0..(Len(ss[PageLoops(p)[l][2]]) - 1) } :
                      l \in 1..(s - 1) })
        \cup { ButtonKey(PageLoops(p)[s][1], idx) : idx \in 0..k }

\* st.button(key=key) returning False: the widget's value is in the session
button_drawn(ss, key) ==
    [k \in DOMAIN ss \cup {key} |-> IF k \in DOMAIN ss THEN ss[k] ELSE FALSE]

\* the session after a whole run of page p that started with the session ss:
\* lines 328-342 assign the keys that are missing, the page is drawn, the
\* script ends
session_after_run(ss, p, rows) ==
    script_finished(session_init(ss), p, rows, InitKeys \ DOMAIN ss)

\* the session after a run of page p that a handler ended with
\* st.experimental_rerun() (lines 412, 432, 460, 472, 615, 627, 632, 636) and
\* the run that call starts, from the session ss the handler left.  The second
\* run takes no widget values from the browser, so a key that lines 328-342
\* assigned in the first run is still an assigned one in the second, and a key
\* dropped at the end of the first run is assigned again by the second: every
\* key of lines 328-342 is there when the second run ends.
session_after_rerun(ss, p, rows) ==
    script_finished(session_init(ss), p, rows, InitKeys)

\* no run in progress: the page is drawn and waits for an event
NoRun == [phase |-> "waiting", clicked |-> "", stage |-> 1, k |-> 0,
          removed |-> 0, late |-> FALSE, assigned |-> {}]

\* the start of a run in which st.button(clicked) is True
RunFor(clicked) == [phase |-> "running", clicked |-> clicked, stage |-> 1, k |-> 0,
                    removed |-> 0, late |-> FALSE, assigned |-> {}]

\* a removal after which the run goes on to the next statement
rerun_skipped(r) == r

\* st.experimental_rerun(): the run is abandoned and the script starts again,
\* with no button True and no widget values from the browser, so the keys of
\* lines 328-342 count as assigned in the run it starts
experimental_rerun(r) == [RunFor("") EXCEPT !.assigned = InitKeys]

----------------------------------------------------------------------------

(* The chat handlers of main() *)

NoCall == [caller |-> "none", query_type |-> "", prompt |-> "", context |-> "",
           messages |-> << >>, assigned |-> {}]

\* one record per handler run: the operation, the history key and the
\* 0-based index it acted on, the text the user sent, how the boundary call
\* ended, what generate_response handed back, whether the handler ran to its
\* end, and (a save) the arguments save_anonymous_post was called with
Ran(op, key, idx, input, llm_ok, llm_text, response, completed) ==
    [op |-> op, key |-> key, idx |-> idx, input |-> input, llm_ok |-> llm_ok,
     llm_text |-> llm_text, response |-> response, completed |-> completed,
     args |-> << >>]

RanPlain(op, key, idx) == Ran(op, key, idx, "", TRUE, "", "", TRUE)

\* a deletion that takes idx for a 1-based position
del_at_one_based(list, idx) ==
    [k \in 1..(Len(list) - 1) |-> IF k < idx THEN list[k] ELSE list[k + 1]]

\* `del st.session_state.<key>[idx]`, idx 0-based
del_at(list, idx) ==
    [k \in 1..(Len(list) - 1) |-> IF k <= idx THEN list[k] ELSE list[k + 1]]

\* lines 417-423: the f-string built from the session's three fields
\* ("情景类型：… 当前状态：… 情绪状态：…")
cultural_context(ss) ==
    "situation_type=" \o ss["situation_type"]
        \o " current_status=" \o ss["current_status"]
        \o " emotional_state=" \o ss["emotional_state"]

\* a generate_response that also stored the prompt in the topic's list
session_after_generate_storing(ss, prompt, query_type) ==
    LET key == IF query_type = "cultural_advice" THEN "cultural_messages"
               ELSE "emotional_messages"
    IN  [session_after_get(ss, history_key(query_type)) EXCEPT
            ![key] = Append(@, Msg("user", prompt))]

\* generate_response's only write to the session: get_chat_messages creating
\* the key f"{query_type}_messages"
session_after_generate(ss, prompt, query_type) ==
    session_after_get(ss, history_key(query_type))

\* the request a caller's generate_response(prompt, query_type, context) sends
Request(caller, prompt, query_type, context, ss) ==
    [caller |-> caller, query_type |-> query_type, prompt |-> prompt,
     context |-> context,
     messages |-> build_messages(prompt, query_type, context, ss),
     \* the keys lines 328-342 assigned in the run that makes the call
     assigned |-> {}]

\* messages the two topic histories hold together
TopicLen == Len(session_state["cultural_messages"]) + Len(session_state["emotional_messages"])

\* the sidebar radio: the script reruns and draws the chosen page
Navigate(p) ==
    /\ pc = "idle"
    /\ p # page
    /\ page' = p
    /\ listed' = IF p = PageTreeHole THEN get_anonymous_posts(posts) ELSE listed
    /\ session_state' = session_after_run(session_state, p, listed')
    /\ last' = RanPlain("navigate", "", -1)
    /\ UNCHANGED <<pc, call, posts, seq, now, conns, run>>

\* a delete button of one of the four loops: del, then st.experimental_rerun()
\* and the run it starts
DeleteButton(loop, on_page, key, idx) ==
    /\ pc = "idle"
    /\ page = on_page
    /\ idx \in 0..(Len(session_state[key]) - 1)
    /\ session_state' = session_after_rerun(
                            [session_init(session_state) EXCEPT ![key] = del_at(@, idx)],
                            page, listed)
    /\ last' = RanPlain(loop, key, idx)
    /\ UNCHANGED <<page, pc, call, posts, seq, now, listed, conns, run>>

\* lines 404-412
DeleteCultural(idx) ==
    DeleteButton("delete_cultural", PageCultural, "cultural_messages", idx)
\* lines 452-460
DeleteEmotional(idx) ==
    DeleteButton("delete_emotional", PageEmotional, "emotional_messages", idx)
\* lines 607-615
DeleteCulturalHistory(idx) ==
    DeleteButton("delete_cultural_history", PageHistory, "cultural_messages", idx)
\* lines 619-627
DeleteEmotionalHistory(idx) ==
    DeleteButton("delete_emotional_history", PageHistory, "emotional_messages", idx)

\* a clear button that empties both histories
ClearBoth(op, key) ==
    /\ pc = "idle"
    /\ session_state' = session_after_rerun(
                            [session_init(session_state) EXCEPT
                                !["cultural_messages"] = << >>,
                                !["emotional_messages"] = << >>],
                            page, listed)
    /\ last' = RanPlain(op, key, -1)
    /\ UNCHANGED <<page, pc, call, posts, seq, now, listed, conns, run>>

\* lines 376-381: the user picks an option of the situation selectbox; the
\* widget stores it under its key and the script reruns
SelectSituation(option) ==
    /\ pc = "idle"
    /\ page = PageCultural
    /\ option # session_state["situation_input"]
    /\ session_state' = session_after_run(
                            [session_state EXCEPT !["situation_input"] = option],
                            page, listed)
    /\ last' = [RanPlain("select_situation", "situation_input", -1) EXCEPT !.input = option]
    /\ UNCHANGED <<page, pc, call, posts, seq, now, listed, conns, run>>

\* a widget created with value=st.session_state.<field> is a new widget once
\* the field has another value: the widget on the screen is the old one when
\* the run before this one is the run that applied an edit of it (lines 371,
\* 398); every other run draws it again with the field's value
widget_outdated(op) == last.op = op /\ last.completed

\* lines 364-371: the user edits the text area.  The run reads the text back
\* from the widget and assigns it to current_status; when the widget on the
\* screen is not the one the run creates, the run gets value=current_status
\* and the text is lost
EditStatus(text) ==
    /\ pc = "idle"
    /\ page = PageCultural
    /\ text # session_state["status_input"]
    /\ session_state' =
          LET typed == IF widget_outdated("edit_status") THEN session_state
                       ELSE [session_state EXCEPT !["status_input"] = text]
              current_status == typed["status_input"]
          IN  session_after_run(
                  IF current_status # typed["current_status"]
                  THEN [typed EXCEPT !["current_status"] = current_status]
                  ELSE typed,
                  page, listed)
    /\ last' = [RanPlain("edit_status", "status_input", -1) EXCEPT
                    !.input = text,
                    !.completed = ~widget_outdated("edit_status")]
    /\ UNCHANGED <<page, pc, call, posts, seq, now, listed, conns, run>>

\* lines 392-398: the user moves the slider of the emotional state; the run
\* assigns its value to emotional_state, or gets value=emotional_state when
\* the slider on the screen is not the one the run creates
SelectEmotionalState(option) ==
    /\ pc = "idle"
    /\ page = PageCultural
    /\ option # session_state["emotional_state"]
    /\ session_state' =
          LET emotional_state ==
                  IF widget_outdated("select_emotional_state")
                  THEN session_state["emotional_state"] ELSE option
          IN  session_after_run(
                  IF emotional_state # session_state["emotional_state"]
                  THEN [session_state EXCEPT !["emotional_state"] = emotional_state]
                  ELSE session_state,
                  page, listed)
    /\ last' = [RanPlain("select_emotional_state", "emotional_state", -1) EXCEPT
                    !.input = option,
                    !.completed = ~widget_outdated("select_emotional_state")]
    /\ UNCHANGED <<page, pc, call, posts, seq, now, listed, conns, run>>

\* lines 630-636: the two sidebar buttons, drawn on every page
ClearButton(op, key) ==
    /\ pc = "idle"
    /\ session_state' = session_after_rerun(
                            [session_init(session_state) EXCEPT ![key] = << >>],
                            page, listed)
    /\ last' = RanPlain(op, key, -1)
    /\ UNCHANGED <<page, pc, call, posts, seq, now, listed, conns, run>>

ClearCultural == ClearButton("clear_cultural", "cultural_messages")
ClearEmotional == ClearButton("clear_emotional", "emotional_messages")

\* generate_response(prompt, query_type, context) up to the boundary call,
\* called with the session ss in a run that assigned the keys `assigned`:
\* it builds the request and blocks in client.chat.completions.create
GenerateBegin(caller, prompt, query_type, context, ss, assigned) ==
    /\ pc = "idle"
    /\ call' = [Request(caller, prompt, query_type, context, ss)
                    EXCEPT !.assigned = assigned]
    /\ session_state' = session_after_generate(ss, prompt, query_type)
    /\ pc' = "awaiting"
    /\ last' = Ran("send_begin", caller, -1, prompt, TRUE, "", "", FALSE)
    /\ UNCHANGED <<page, posts, seq, now, listed, conns, run>>

\* lines 415-427: the cultural page's chat input
SendCultural(user_input) ==
    /\ page = PageCultural
    /\ TopicLen + 2 <= MaxMsgs
    /\ GenerateBegin("cultural_messages", user_input, "cultural_advice",
                     cultural_context(session_init(session_state)),
                     session_init(session_state), InitKeys \ DOMAIN session_state)

\* lines 462-467: the emotional page's chat input
SendEmotional(user_input) ==
    /\ page = PageEmotional
    /\ TopicLen + 2 <= MaxMsgs
    /\ GenerateBegin("emotional_messages", user_input, "emotion_support", None_,
                     session_init(session_state), InitKeys \ DOMAIN session_state)

\* a chat handler that saves the response without the user's text
Complete_reply_only(outcome) ==
    LET res == generate_response_result(outcome)
        key == call.caller
        done == res.kind = "return"
    IN  /\ pc = "awaiting"
        /\ session_state' =
              IF done /\ key \in {"cultural_messages", "emotional_messages"}
              THEN session_after_rerun(
                       [session_state EXCEPT ![key] = Append(@, Msg("assistant", res.value))],
                       page, listed)
              ELSE IF done /\ key = "support"
              THEN script_finished(session_state, page, listed, call.assigned)
              ELSE session_state
        /\ last' = Ran("send", key, -1, call.prompt, outcome.ok, outcome.text,
                       IF done THEN res.value ELSE "", done)
        /\ pc' = "idle"
        /\ call' = NoCall
        /\ UNCHANGED <<page, posts, seq, now, listed, conns, run>>

\* the rest of the blocked handler, once the boundary call has ended with
\* `outcome`: a chat handler appends the user's text and the response to its
\* own list and reruns; the support button writes the response to the page;
\* an exception leaving generate_response would end the run there
Complete(outcome) ==
    LET res == generate_response_result(outcome)
        key == call.caller
        done == res.kind = "return"
    IN  /\ pc = "awaiting"
        /\ session_state' =
              IF done /\ key \in {"cultural_messages", "emotional_messages"}
              THEN session_after_rerun(
                       [session_state EXCEPT ![key] =
                            Append(Append(@, Msg("user", call.prompt)),
                                   Msg("assistant", res.value))],
                       page, listed)
              ELSE IF done /\ key = "support"
              THEN script_finished(session_state, page, listed, call.assigned)
              ELSE session_state
        /\ last' = Ran("send", key, -1, call.prompt, outcome.ok, outcome.text,
                       IF done THEN res.value ELSE "", done)
        /\ pc' = "idle"
        /\ call' = NoCall
        /\ UNCHANGED <<page, posts, seq, now, listed, conns, run>>

LLMReturn(text) == Complete([ok |-> TRUE, text |-> text])
LLMRaise(text) == Complete([ok |-> FALSE, text |-> text])

----------------------------------------------------------------------------
(* Spec: one session using the two chat pages, the history page and the
   sidebar *)

Init ==
    /\ session_state = InitialSession
    /\ page = Pages[1]
    /\ pc = "idle"
    /\ call = NoCall
    /\ last = RanPlain("start", "", -1)
    /\ posts = << >>
    /\ seq = 0
    /\ now = 0
    /\ listed = << >>
    /\ conns = NoConns
    /\ run = NoRun

Next ==
    \/ \E p \in {Pages[i] : i \in 1..Len(Pages)} : Navigate(p)
    \/ \E idx \in 0..(MaxMsgs - 1) : DeleteCultural(idx)
    \/ \E idx \in 0..(MaxMsgs - 1) : DeleteEmotional(idx)
    \/ \E idx \in 0..(MaxMsgs - 1) : DeleteCulturalHistory(idx)
    \/ \E idx \in 0..(MaxMsgs - 1) : DeleteEmotionalHistory(idx)
    \/ ClearCultural
    \/ ClearEmotional
    \/ \E o \in DOMAIN SITUATION_TYPES : SelectSituation(o)
    \/ \E t \in StatusTexts : EditStatus(t)
    \/ \E o \in EmotionalStates : SelectEmotionalState(o)
    \/ \E t \in UserTexts : SendCultural(t)
    \/ \E t \in UserTexts : SendEmotional(t)
    \/ \E r \in Replies : LLMReturn(r)
    \/ \E e \in Failures : LLMRaise(e)

Spec == Init /\ [][Next]_vars

----------------------------------------------------------------------------
(* RenderSpec: the session of Spec, with the run that a click on a delete or
   clear button starts taken one button at a time *)

\* the user clicks a button that is on the screen: the script runs again,
\* with the button's key (a delete button has one) True in the session
Click(key) ==
    /\ pc = "idle"
    /\ run.phase = "waiting"
    /\ key \in RemovalButtons(page, session_state)
    /\ run' = [RunFor(key) EXCEPT !.assigned = InitKeys \ DOMAIN session_state]
    /\ session_state' =
          LET ss == session_init(session_state)
          IN  IF key \in DOMAIN ss THEN [ss EXCEPT ![key] = TRUE] ELSE ss
    /\ last' = RanPlain("click", key, -1)
    /\ UNCHANGED <<page, pc, call, posts, seq, now, listed, conns>>

\* the run reaches its next button.  In a delete loop (lines 404-412, 452-460,
\* 607-615, 619-627) `for idx, message in enumerate(list)` reads the live list
\* at iterator position k; st.button(key) is True for the clicked key, and
\* then `del list[idx]` and st.experimental_rerun() follow.  After the page's
\* loops come the two sidebar buttons (lines 630-636), and the end of the
\* script.  Where the run ends, at st.experimental_rerun() or at the end of
\* the script, the keys of the widgets it did not draw are dropped; the run
\* st.experimental_rerun() starts then passes lines 328-342.
RunStep ==
    LET loops == PageLoops(page)
        n == Len(loops)
        s == run.stage
        \* this button is evaluated; was there a removal before it in this run
        seen == [run EXCEPT !.late = @ \/ run.removed > 0]
    IN  /\ run.phase = "running"
        /\ UNCHANGED <<page, pc, call, posts, seq, now, listed, conns>>
        /\ IF s <= n
           THEN LET prefix == loops[s][1]
                    key == loops[s][2]
                IN  IF run.k >= Len(session_state[key])
                    THEN /\ run' = [run EXCEPT !.stage = s + 1, !.k = 0]
                         /\ last' = RanPlain("run_step", "", -1)
                         /\ UNCHANGED session_state
                    ELSE IF ButtonKey(prefix, run.k) = run.clicked
                    THEN /\ session_state' = session_init(script_ended(
                                   [session_state EXCEPT ![key] = del_at(@, run.k)],
                                   DrawnUpTo(page, session_state, s, run.k),
                                   run.assigned))
                         /\ last' = RanPlain(prefix, key, run.k)
                         /\ run' = experimental_rerun(
                                      [seen EXCEPT !.k = @ + 1, !.removed = @ + 1])
                    ELSE /\ run' = [seen EXCEPT !.k = @ + 1]
                         /\ last' = RanPlain("run_step", "", -1)
                         /\ session_state' = button_drawn(session_state,
                                                          ButtonKey(prefix, run.k))
           ELSE IF s <= n + Len(SidebarButtons)
           THEN LET b == SidebarButtons[s - n]
                IN  IF b[1] = run.clicked
                    THEN /\ session_state' = session_init(script_ended(
                                   [session_state EXCEPT ![b[2]] = << >>],
                                   WidgetKeys(page, session_state, listed),
                                   run.assigned))
                         /\ last' = RanPlain(b[1], b[2], -1)
                         /\ run' = experimental_rerun(
                                      [seen EXCEPT !.stage = @ + 1, !.removed = @ + 1])
                    ELSE /\ run' = [seen EXCEPT !.stage = @ + 1]
                         /\ last' = RanPlain("run_step", "", -1)
                         /\ UNCHANGED session_state
           ELSE /\ run' = NoRun
                /\ last' = RanPlain("run_end", "", -1)
                /\ session_state' = script_finished(session_state, page, listed,
                                                     run.assigned)

\* the other events are handled once the page is drawn
RenderNext ==
    \/ /\ run.phase = "waiting"
       /\ \/ \E p \in {Pages[i] : i \in 1..Len(Pages)} : Navigate(p)
          \/ \E t \in UserTexts : SendCultural(t)
          \/ \E t \in UserTexts : SendEmotional(t)
          \/ \E r \in Replies : LLMReturn(r)
          \/ \E e \in Failures : LLMRaise(e)
    \/ \E key \in RemovalButtons(page, session_state) : Click(key)
    \/ RunStep

RenderSpec == Init /\ [][RenderNext]_vars

----------------------------------------------------------------------------

(* The tree-hole page of main() *)

\* the database clock passes to the next second; its value is seen only in
\* the stored timestamps, so it moves once at most between two inserts
Tick ==
    /\ pc = "idle"
    /\ Len(posts) > 0
    /\ now = posts[Len(posts)].timestamp
    /\ now' = now + 1
    /\ last' = RanPlain("tick", "", -1)
    /\ UNCHANGED <<session_state, page, pc, call, posts, seq, listed, conns, run>>

\* a publish handler without the `if post_content:` of line 519
Publish_unguarded(post_content, post_category, selected_mood, post_date) ==
    LET res == save_anonymous_post(posts, seq, now, post_content, post_category,
                                   selected_mood, MOOD_COLORS[selected_mood].color,
                                   post_date)
    IN  /\ pc = "idle"
        /\ page = PageTreeHole
        /\ Len(posts) < MaxPosts
        /\ posts' = res.posts
        /\ seq' = res.seq
        /\ listed' = get_anonymous_posts(posts')
        /\ last' = [Ran("publish", "", -1, post_content, TRUE, "", "", TRUE)
                        EXCEPT !.args = <<post_content, post_category, selected_mood, post_date>>]
        /\ session_state' = session_after_run(session_state, page, listed')
        /\ UNCHANGED <<page, pc, call, now, conns, run>>

\* a publish handler that calls save_anonymous_post without its last
\* argument, the date
Publish_undated(post_content, post_category, selected_mood, post_date) ==
    LET res == save_anonymous_post(posts, seq, now, post_content, post_category,
                                   selected_mood, MOOD_COLORS[selected_mood].color,
                                   NoDate)
        saved == Truthy(post_content) /\ res.kind = "return"
    IN  /\ pc = "idle"
        /\ page = PageTreeHole
        /\ Truthy(post_content) => Len(posts) < MaxPosts
        /\ posts' = IF Truthy(post_content) THEN res.posts ELSE posts
        /\ seq' = IF Truthy(post_content) THEN res.seq ELSE seq
        /\ listed' = get_anonymous_posts(posts')
        /\ last' = [Ran("publish", "", -1, post_content, TRUE, "", "", saved)
                        EXCEPT !.args = IF saved
                                        THEN <<post_content, post_category, selected_mood, post_date>>
                                        ELSE << >>]
        /\ session_state' = session_after_run(session_state, page, listed')
        /\ UNCHANGED <<page, pc, call, now, conns, run>>

\* lines 518-530, then the rest of the run: the "发布" button saves when the
\* text area is not empty and warns otherwise; tab2 and tab3 then list the
\* table (lines 534, 561)
Publish(post_content, post_category, selected_mood, post_date) ==
    LET res == save_anonymous_post(posts, seq, now, post_content, post_category,
                                   selected_mood, MOOD_COLORS[selected_mood].color,
                                   post_date)
        saved == Truthy(post_content) /\ res.kind = "return"
    IN  /\ pc = "idle"
        /\ page = PageTreeHole
        /\ Truthy(post_content) => Len(posts) < MaxPosts
        /\ posts' = IF Truthy(post_content) THEN res.posts ELSE posts
        /\ seq' = IF Truthy(post_content) THEN res.seq ELSE seq
        /\ listed' = get_anonymous_posts(posts')
        /\ last' = [Ran("publish", "", -1, post_content, TRUE, "", "", saved)
                        EXCEPT !.args = IF saved
                                        THEN <<post_content, post_category, selected_mood, post_date>>
                                        ELSE << >>]
        /\ session_state' = session_after_run(session_state, page, listed')
        /\ UNCHANGED <<page, pc, call, now, conns, run>>

\* lines 489-516: the user changes the category, the mood, the date or the
\* text of the post form; the script reruns and lists the table again
FormInput ==
    /\ pc = "idle"
    /\ page = PageTreeHole
    /\ listed' = get_anonymous_posts(posts)
    /\ session_state' = session_after_run(session_state, page, listed')
    /\ last' = RanPlain("form_input", "", -1)
    /\ UNCHANGED <<page, pc, call, posts, seq, now, conns, run>>

\* lines 552-555: the "提供支持" button of the k-th listed post, True in the
\* run its click starts
Support(k) ==
    /\ page = PageTreeHole
    /\ k \in 1..Len(listed)
    /\ GenerateBegin("support", listed[k].content, "anonymous_sharing", None_,
                     [session_init(session_state) EXCEPT
                         ![ButtonKey("support", listed[k].id)] = TRUE],
                     InitKeys \ DOMAIN session_state)

\* the pages the sidebar radio is moved between here: the first page and the
\* tree-hole page
PostPages == {PageCultural, PageTreeHole}

PostNext ==
    \/ \E p \in PostPages : Navigate(p)
    \/ Tick
    \/ FormInput
    \/ \E f \in Forms : Publish(f.content, f.category, f.mood, f.date)
    \/ \E k \in 1..MaxPosts : Support(k)
    \/ \E r \in Replies : LLMReturn(r)
    \/ \E e \in Failures : LLMRaise(e)

PostSpec == Init /\ [][PostNext]_vars

----------------------------------------------------------------------------
(* MonthSpec: the tree-hole page with posts dated in several months *)

\* post forms submitted with the "发布" button whose dates span four months of
\* two years; two of them share a date with different moods
MonthForms ==
    { Form("happy", "other", "very_happy", <<2024, 2, 29>>),
      Form("sad", "other", "very_sad", <<2024, 3, 15>>),
      Form("sad", "study_pressure", "so_so", <<2024, 3, 15>>),
      Form("happy", "study_pressure", "good", <<2024, 4, 30>>),
      Form("sad", "other", "a_bit_low", <<2023, 3, 15>>),
      Form("happy", "other", "so_so", <<2024, 3, 1>>) }

MonthNext ==
    \/ \E p \in {Pages[i] : i \in 1..Len(Pages)} : Navigate(p)
    \/ Tick
    \/ FormInput
    \/ \E f \in MonthForms : Publish(f.content, f.category, f.mood, f.date)

MonthSpec == Init /\ [][MonthNext]_vars

----------------------------------------------------------------------------
(* SessionsSpec: two sessions publish posts and a third lists the table, each
   call on its own connection, interleaved statement by statement *)

\* the form each publishing session submits
WriterForm(s) ==
    IF s = "s1" THEN Form("happy", "other", "very_happy", <<2024, 3, 1>>)
    ELSE Form("sad", "study_pressure", "very_sad", <<2024, 3, 15>>)

\* rows inserted and not committed, over all connections
PendingRows == {s \in Sessions : Len(conns[s].pending) > 0}

\* the calls of save_anonymous_post made so far: the rows stored, the calls
\* in progress and the calls that raised (a call that raised is over, also
\* while its connection is still open)
SaveCalled ==
    Len(posts) + Cardinality({s \in Writers : conns[s].pc \notin {"closed", "raised"}})
        + conns["s1"].failed + conns["s2"].failed

\* save_anonymous_post, lines 74-83: connect, compute the score, and execute
\* the INSERT inside the implicit transaction, at once or after a wait in the
\* busy handler.  The row gets its rowid from the committed sqlite_sequence
\* and its timestamp from the clock.
SaveInsert(s) ==
    LET f == WriterForm(s)
        res == save_anonymous_post(posts, seq, now, f.content, f.category, f.mood,
                                   MOOD_COLORS[f.mood].color, f.date)
    IN  /\ pc = "idle"
        /\ \/ conns[s].pc = "closed" /\ SaveCalled < MaxPosts
           \/ conns[s].pc = "waiting_insert"
        /\ reserved_free(conns, s)
        /\ conns' = [conns EXCEPT ![s] =
                        [pc |-> "inserted",
                         pending |-> << res.posts[Len(res.posts)] >>,
                         saved |-> @.saved, since |-> 0, failed |-> @.failed]]
        /\ last' = [RanPlain("save_insert", s, -1) EXCEPT
                        !.args = <<f.content, f.category, f.mood, f.date>>]
        /\ UNCHANGED <<session_state, page, pc, call, posts, seq, now, listed, run>>

\* lines 75-83 when another connection has a write transaction open: the
\* INSERT of line 81 starts to wait in the busy handler
SaveInsertBusy(s) ==
    /\ pc = "idle"
    /\ conns[s].pc = "closed"
    /\ SaveCalled < MaxPosts
    /\ ~reserved_free(conns, s)
    /\ conns' = [conns EXCEPT ![s].pc = "waiting_insert", ![s].since = now]
    /\ last' = RanPlain("save_insert_busy", s, -1)
    /\ UNCHANGED <<session_state, page, pc, call, posts, seq, now, listed, run>>

\* lines 84-85: conn.commit() makes the row visible to every connection, at
\* once or after a wait in the busy handler, and conn.close();
\* save_anonymous_post returns
SaveCommit(s) ==
    /\ conns[s].pc \in {"inserted", "waiting_commit"}
    /\ exclusive_free(conns, s)
    /\ posts' = posts \o conns[s].pending
    /\ seq' = IF conns[s].pending[1].id > seq THEN conns[s].pending[1].id ELSE seq
    /\ conns' = [conns EXCEPT ![s] =
                    [pc |-> "closed", pending |-> << >>, saved |-> @.saved + 1,
                     since |-> 0, failed |-> @.failed]]
    /\ last' = RanPlain("save_commit", s, -1)
    /\ UNCHANGED <<session_state, page, pc, call, now, listed, run>>

\* line 84 while another connection reads: conn.commit() starts to wait in
\* the busy handler, holding the write transaction
SaveCommitBusy(s) ==
    /\ conns[s].pc = "inserted"
    /\ ~exclusive_free(conns, s)
    /\ conns' = [conns EXCEPT ![s].pc = "waiting_commit", ![s].since = now]
    /\ last' = RanPlain("save_commit_busy", s, -1)
    /\ UNCHANGED <<session_state, page, pc, call, posts, seq, now, listed, run>>

\* lines 90-92: connect and start the SELECT
ListBegin ==
    /\ pc = "idle"
    /\ conns[Reader].pc = "closed"
    /\ shared_free(conns, Reader)
    /\ conns' = [conns EXCEPT ![Reader].pc = "reading"]
    /\ last' = RanPlain("list_begin", Reader, -1)
    /\ UNCHANGED <<session_state, page, pc, call, posts, seq, now, listed, run>>

\* lines 92-97: the SELECT's rows, the committed ones; close and return
ListEnd ==
    /\ conns[Reader].pc = "reading"
    /\ listed' = get_anonymous_posts(posts)
    /\ conns' = [conns EXCEPT ![Reader].pc = "closed"]
    /\ last' = RanPlain("list_end", Reader, -1)
    /\ UNCHANGED <<session_state, page, pc, call, posts, seq, now, run>>

SessionsNext ==
    \/ \E s \in Writers : SaveInsert(s)
    \/ \E s \in Writers : SaveInsertBusy(s)
    \/ \E s \in Writers : SaveCommit(s)
    \/ \E s \in Writers : SaveCommitBusy(s)
    \/ ListBegin
    \/ ListEnd
    \/ Tick

SessionsSpec == Init /\ [][SessionsNext]_vars

----------------------------------------------------------------------------
(* HeldSessionsSpec: the sessions of SessionsSpec when a session can be held
   between two statements from outside the program (its process suspended,
   its disk stalled) for longer than the busy timeout.  The program itself
   runs conn.commit() right after the INSERT and closes a SELECT right after
   the fetch, so in SessionsSpec no statement waits a whole second. *)

\* a second passes while a session is held: every waiting statement still
\* finds its lock taken and none has reached its timeout (the busy handler
\* retries within a tenth of a second, so a statement whose lock is free
\* does not keep waiting)
BusyWait ==
    /\ Waiting(conns) # {}
    /\ \A s \in Waiting(conns) :
          ~lock_free(conns, s) /\ now < conns[s].since + BusyTimeout
    /\ now' = now + 1
    /\ last' = RanPlain("busy_wait", "", -1)
    /\ UNCHANGED <<session_state, page, pc, call, posts, seq, listed, conns, run>>

\* line 81 after BusyTimeout seconds without the lock: cursor.execute raises
\* sqlite3.OperationalError (database is locked), save_anonymous_post ends by
\* the exception and no row is stored; the connection, left open, has no
\* transaction and holds no lock
SaveInsertLocked(s) ==
    /\ conns[s].pc = "waiting_insert"
    /\ ~reserved_free(conns, s)
    /\ now >= conns[s].since + BusyTimeout
    /\ conns' = [conns EXCEPT ![s].pc = "closed", ![s].since = 0, ![s].failed = @ + 1]
    /\ last' = RanPlain("save_insert_locked", s, -1)
    /\ UNCHANGED <<session_state, page, pc, call, posts, seq, now, listed, run>>

\* line 84 after BusyTimeout seconds without the lock: conn.commit() raises
\* sqlite3.OperationalError and save_anonymous_post ends by the exception.
\* conn.close() of line 85 is not reached and there is no try/finally: the
\* connection stays open with its uncommitted row and its locks
SaveCommitLocked(s) ==
    /\ conns[s].pc = "waiting_commit"
    /\ ~exclusive_free(conns, s)
    /\ now >= conns[s].since + BusyTimeout
    /\ conns' = [conns EXCEPT ![s].pc = "raised", ![s].since = 0, ![s].failed = @ + 1]
    /\ last' = RanPlain("save_commit_locked", s, -1)
    /\ UNCHANGED <<session_state, page, pc, call, posts, seq, now, listed, run>>

\* the connection object left by a raised commit is collected: sqlite3 closes
\* it, which rolls the row and the sqlite_sequence change back and frees the
\* locks
Discard(s) ==
    /\ conns[s].pc = "raised"
    /\ conns' = [conns EXCEPT ![s].pc = "closed", ![s].pending = << >>]
    /\ last' = RanPlain("discard", s, -1)
    /\ UNCHANGED <<session_state, page, pc, call, posts, seq, now, listed, run>>

HeldSessionsNext ==
    \/ SessionsNext
    \/ BusyWait
    \/ \E s \in Writers : SaveInsertLocked(s)
    \/ \E s \in Writers : SaveCommitLocked(s)
    \/ \E s \in Writers : Discard(s)

HeldSessionsSpec == Init /\ [][HeldSessionsNext]_vars

----------------------------------------------------------------------------

(* ComposerSpec: generate_response called as main() calls it, on a session
   whose f"{query_type}_messages" lists hold messages.  main() itself puts
   nothing under these keys, so the lists are filled here.  The k-th message
   put under a key is "m<k>", from the user when k is odd and from the
   assistant when k is even, so every position of a list is told apart. *)

\* the context argument of the three calls of generate_response: the f-string
\* of lines 419-423 for cultural advice (line 427), here for two sessions, and
\* none for emotion support (line 467) and anonymous sharing (line 554)
Contexts(query_type) ==
    IF query_type = "cultural_advice"
    THEN { cultural_context(InitialSession),
           cultural_context([InitialSession EXCEPT
                                !["current_status"] = "new here",
                                !["emotional_state"] = "optimistic"]) }
    ELSE {None_}

SeedMsg(k) == Msg(IF k % 2 = 1 THEN "user" ELSE "assistant", "m" \o ToString(k))

\* the caller's session gets one more message under f"{query_type}_messages"
Seed(query_type) ==
    LET key == history_key(query_type)
        ss == session_after_get(session_state, key)
    IN  /\ pc = "idle"
        /\ Len(ss[key]) < MaxSeed
        /\ session_state' = [ss EXCEPT ![key] = Append(@, SeedMsg(Len(@) + 1))]
        /\ last' = RanPlain("seed", key, Len(ss[key]))
        /\ UNCHANGED <<page, pc, call, posts, seq, now, listed, conns, run>>

GenerateDirect(prompt, query_type, context) ==
    GenerateBegin("direct", prompt, query_type, context, session_state, {})

ComposerNext ==
    \/ \E q \in QueryTypes : Seed(q)
    \/ \E t \in UserTexts, q \in QueryTypes :
          \E c \in Contexts(q) : GenerateDirect(t, q, c)
    \/ \E r \in Replies : LLMReturn(r)
    \/ \E e \in Failures : LLMRaise(e)

ComposerSpec == Init /\ [][ComposerNext]_vars

----------------------------------------------------------------------------
(* RequestSpec: one session that makes all three calls of generate_response:
   it chats on both chat pages, edits the fields of the cultural context,
   publishes a post and asks for support on it *)

\* the post form submitted here
RequestForms == { Form("happy", "other", "very_happy", <<2024, 3, 1>>) }

RequestNext ==
    \/ \E p \in {Pages[i] : i \in 1..Len(Pages)} : Navigate(p)
    \/ \E t \in StatusTexts : EditStatus(t)
    \/ \E o \in EmotionalStates : SelectEmotionalState(o)
    \/ \E t \in UserTexts : SendCultural(t)
    \/ \E t \in UserTexts : SendEmotional(t)
    \/ FormInput
    \/ \E f \in RequestForms : Publish(f.content, f.category, f.mood, f.date)
    \/ \E k \in 1..MaxPosts : Support(k)
    \/ \E r \in Replies : LLMReturn(r)
    \/ \E e \in Failures : LLMRaise(e)

RequestSpec == Init /\ [][RequestNext]_vars

----------------------------------------------------------------------------
(* CalendarSpec: create_mood_calendar called directly on a listing of one
   post, dated in any month of the years 2019..MaxYear *)

\* the row get_anonymous_posts returns for a post with mood "一般般 😐" dated d
ListedRow(d) ==
    [id |-> 1, content |-> "happy", category |-> "other", mood |-> "so_so",
     mood_color |-> stored_mood_color("so_so"), post_date |-> d,
     sentiment_score |-> mood_score("so_so"), timestamp |-> 0]

Years == 2019..MaxYear

\* fig = create_mood_calendar(posts)
CalendarCall(d) ==
    /\ pc = "idle"
    /\ listed' = << ListedRow(d) >>
    /\ last' = [RanPlain("calendar_call", "", -1) EXCEPT !.args = d]
    /\ UNCHANGED <<session_state, page, pc, call, posts, seq, now, conns, run>>

CalendarNext ==
    \E year \in Years, month \in 1..12, day \in {1, 15} : CalendarCall(<<year, month, day>>)

CalendarSpec == Init /\ [][CalendarNext]_vars

----------------------------------------------------------------------------

(* Claims about the chat session (Spec) *)

TopicKeys == {"cultural_messages", "emotional_messages"}
DeleteLoops == {"delete_cultural", "delete_emotional",
                "delete_cultural_history", "delete_emotional_history"}

MinOf(a, b) == IF a < b THEN a ELSE b

\* the last n elements of s
LastN(s, n) == SubSeq(s, Len(s) - n + 1, Len(s))

\* w occurs in s as a run of consecutive elements
HasRun(s, w) ==
    \E off \in 0..(Len(s) - Len(w)) : \A k \in 1..Len(w) : s[off + k] = w[k]

\* C2: whenever a chat handler of a topic has composed its prompt, the prompt
\* carries the last min(10, L) messages of that topic's history, the list the
\* handler itself appends to (L its current length).
C2_PromptCarriesTopicHistory ==
    (pc = "awaiting" /\ call.caller \in TopicKeys) =>
        LET h == session_state[call.caller]
        IN  HasRun(call.messages, LastN(h, MinOf(WindowSize, Len(h))))

\* C4: a step taken by any of the four delete loops at position idx leaves the
\* list one shorter, with the elements before idx in place and the elements
\* after idx moved down by one.
C4_DeleteRemovesExactlyIdx ==
    [][ last'.op \in DeleteLoops =>
            LET h == session_state[last'.key]
                g == session_state'[last'.key]
                i == last'.idx
            IN  /\ i \in 0..(Len(h) - 1)
                /\ Len(g) = Len(h) - 1
                /\ \A k \in 0..(Len(h) - 1) :
                      /\ k < i => g[k + 1] = h[k + 1]
                      /\ k > i => g[k] = h[k + 1] ]_vars

\* C4 witness: the history page's second loop has deleted the second of four
\* messages, and the two after it have moved down.
C4_Witness ==
    /\ last.op = "delete_emotional_history"
    /\ last.idx = 1
    /\ session_state["emotional_messages"] =
          << Msg("user", "happy"), Msg("user", "sad"), Msg("assistant", "r1") >>

\* C5: a turn whose boundary call failed has run to its end, and what
\* generate_response handed back is the error prefix followed by the failure's
\* message, stored as the assistant's reply.
C5_FailureBecomesReply ==
    (last.op = "send" /\ ~last.llm_ok) =>
        /\ last.completed
        /\ last.response = ErrPrefix \o last.llm_text
        /\ last.key \in TopicKeys =>
              LET h == session_state[last.key]
              IN  /\ Len(h) >= 2
                  /\ h[Len(h) - 1] = Msg("user", last.input)
                  /\ h[Len(h)] = Msg("assistant", ErrPrefix \o last.llm_text)

\* C5 witness: a cultural-advice turn whose boundary call raised "e1" ended
\* with the error string as the reply.
C5_Witness ==
    /\ last.op = "send"
    /\ ~last.llm_ok
    /\ last.completed
    /\ last.key = "cultural_messages"
    /\ session_state["cultural_messages"] =
          << Msg("user", "sad"), Msg("assistant", "ERROR:e1") >>

\* C6: the step in which generate_response composes and sends the request
\* leaves both topic histories as they were; the step that receives the
\* response appends the user's message and then the assistant's to the
\* caller's history and leaves the other history alone.
C6_GenerateLeavesHistories ==
    [][ /\ pc' = "awaiting" =>
              \A key \in TopicKeys : session_state'[key] = session_state[key]
        /\ (pc = "awaiting" /\ call.caller \in TopicKeys) =>
              /\ session_state'[call.caller] =
                    session_state[call.caller]
                        \o << Msg("user", call.prompt), Msg("assistant", last'.response) >>
              /\ \A key \in TopicKeys \ {call.caller} :
                    session_state'[key] = session_state[key] ]_vars

\* C6 witness: a first emotional-support turn has ended; generate_response
\* created its own key and the handler stored the pair.
C6_Witness ==
    /\ last.op = "send"
    /\ last.completed
    /\ "emotion_support_messages" \in DOMAIN session_state
    /\ session_state["emotional_messages"] =
          << Msg("user", "happy"), Msg("assistant", "r1") >>

----------------------------------------------------------------------------
(* Claims about the composed prompt (RequestSpec, ComposerSpec) *)

\* the list generate_response read for the request in flight
ReadHistory == session_state[history_key(call.query_type)]

HistoryPart == SelectSeq(call.messages, LAMBDA x : \E k \in 1..Len(ReadHistory) : ReadHistory[k] = x)

C3_WindowIsLastTen ==
    pc = "awaiting" =>
        LET L == Len(ReadHistory)
            n == MinOf(WindowSize, L)
        IN  /\ Len(HistoryPart) = n
            /\ Len(HistoryPart) <= 10
            /\ \A k \in 1..n : HistoryPart[k] = ReadHistory[L - n + k]

\* C3 witness: twelve messages under the key, and the request carries
\* messages 3 to 12 in that order.
C3_Witness ==
    /\ pc = "awaiting"
    /\ call.query_type = "cultural_advice"
    /\ Len(ReadHistory) = 12
    /\ HistoryPart = [k \in 1..10 |-> SeedMsg(k + 2)]

----------------------------------------------------------------------------
(* Claims about the post store (PostSpec) *)

\* C7: the stored sentiment_score depends on the post's content alone: two
\* stored posts with the same content have the same sentiment_score, whatever
\* mood was selected for each.
C7_ScoreFromContentAlone ==
    \A i, j \in 1..Len(posts) :
        posts[i].content = posts[j].content =>
            posts[i].sentiment_score = posts[j].sentiment_score

\* C8: a save with a mood of the vocabulary adds exactly one entry to what
\* the listing returns; the entry has the saved content and category, the
\* colour and the score MOOD_COLORS gives the mood; the other entries are the
\* ones listed before, in their order.
C8_SaveRoundTrip ==
    [][ (last'.op = "publish" /\ last'.completed /\ last'.args[3] \in DOMAIN MOOD_COLORS) =>
            /\ Len(listed') = Len(listed) + 1
            /\ \E k \in 1..Len(listed') :
                  /\ listed'[k].content = last'.args[1]
                  /\ listed'[k].category = last'.args[2]
                  /\ listed'[k].mood_color = MOOD_COLORS[last'.args[3]].color
                  /\ listed'[k].sentiment_score = MOOD_COLORS[last'.args[3]].score
                  /\ \A j \in 1..Len(listed) :
                        listed[j] = listed'[IF j < k THEN j ELSE j + 1] ]_vars

\* C8 witness: a second post saved with the mood "很难过 😢" is listed with
\* colour #CD5C5C and score 0.
C8_Witness ==
    /\ last.op = "publish"
    /\ last.completed
    /\ last.args = <<"sad", "other", "very_sad", <<2024, 3, 15>>>>
    /\ Len(listed) = 2
    /\ \E k \in 1..2 :
          /\ listed[k].content = "sad"
          /\ listed[k].category = "other"
          /\ listed[k].mood_color = "#CD5C5C"
          /\ listed[k].sentiment_score = 0

\* C9: a publish whose text is empty is rejected before any side effect: it
\* saves nothing, and the table and the rowid counter are exactly what they
\* were; no stored post has an empty content or a mood outside the
\* vocabulary of MOOD_COLORS.
C9_InvalidSaveRejected ==
    /\ [](\A i \in 1..Len(posts) :
            posts[i].content # "" /\ posts[i].mood \in DOMAIN MOOD_COLORS)
    /\ [][ (last'.op = "publish" /\ last'.input = "") =>
              /\ ~last'.completed
              /\ posts' = posts
              /\ seq' = seq ]_vars

\* C9 witness: with one post stored, the publish button was pressed with the
\* text area empty; the run warned and the table still holds that one post.
C9_Witness ==
    /\ last.op = "publish"
    /\ last.input = ""
    /\ ~last.completed
    /\ Len(posts) = 1
    /\ seq = 1
    /\ Len(listed) = 1

\* C10: every step keeps every stored row, unchanged and in place; the ids of
\* the table are pairwise distinct and grow with the order of saving.
C10_AppendOnly ==
    [][ /\ Len(posts') >= Len(posts)
        /\ \A i \in 1..Len(posts) : posts'[i] = posts[i]
        /\ \A i, j \in 1..Len(posts') : i < j => posts'[i].id < posts'[j].id ]_vars

\* C10 witness: two posts saved in different seconds, then a support reply
\* generated for one of them; both rows are there with ids 1 and 2.
C10_Witness ==
    /\ Len(posts) = 2
    /\ posts[1].id = 1
    /\ posts[2].id = 2
    /\ posts[1].timestamp < posts[2].timestamp
    /\ last.op = "send"
    /\ last.key = "support"

----------------------------------------------------------------------------
(* Claims about the mood views (PostSpec, CalendarSpec) *)

\* the page has just listed the table: the run that opened the tree-hole page
\* or that handled the publish button (the listing, and with it the views,
\* stay as they are until the next such run)
JustListed == page = PageTreeHole /\ last.op \in {"navigate", "publish"}

\* C11: in the calendar the tree-hole page draws from its listing, whenever
\* two or more stored posts share a date of the target month and one of them
\* was created after all the others (a later timestamp), the cell of that
\* date has the mood colour of that one.
C11_CalendarLastWriteWins ==
    JustListed =>
        LET fig == create_mood_calendar(listed)
        IN  \A i \in 1..Len(posts) :
                LET date == parse_date(posts[i].post_date)
                    same == {j \in 1..Len(posts) : posts[j].post_date = posts[i].post_date}
                IN  ( /\ Cardinality(same) >= 2
                      /\ \A j \in same \ {i} : posts[j].timestamp < posts[i].timestamp
                      /\ to_period_M(date) = to_period_M(listed[1].post_date) )
                        => /\ fig.traces[date[3]].date = date
                           /\ fig.traces[date[3]].color = posts[i].mood_color

\* C11 witness: three posts dated 2024-03-15 were saved in three different
\* seconds with three different moods, and the cell of the 15th has the colour
\* of the one saved last.
C11_Witness ==
    /\ JustListed
    /\ Len(posts) = 3
    /\ \A i \in 1..3 : posts[i].post_date = "2024-03-15" /\ posts[i].timestamp = i - 1
    /\ posts[1].mood_color = "#CD5C5C"
    /\ posts[2].mood_color = "#87CEEB"
    /\ posts[3].mood_color = "#98FB98"
    /\ create_mood_calendar(listed).kind = "figure"
    /\ create_mood_calendar(listed).traces[15].color = "#98FB98"

\* C13: in the calendar of any month, the cell of day 1 is in column 0, every
\* cell's column is in 0..5, the column is the day's ISO week number minus
\* the smallest ISO week number of the month's days, and the column never
\* decreases from one day to the next.
C13_WeekColumns ==
    last.op = "calendar_call" =>
        LET t == create_mood_calendar(listed).traces
            w == [k \in 1..Len(t) |-> isocalendar_week(t[k].date)]
        IN  /\ t[1].x = 0
            /\ \A k \in 1..Len(t) : t[k].x \in 0..5
            /\ \A k \in 1..Len(t) : t[k].x = w[k] - min_of(w)
            /\ \A k \in 1..(Len(t) - 1) : t[k].x <= t[k + 1].x

----------------------------------------------------------------------------
(* More claims about the composed prompt (ComposerSpec) *)

\* C12: every request in flight, of any of the three topics and with or
\* without a context, has that topic's instruction template as a system
\* message in first place and no other system message; composed on an empty
\* history without a context it is exactly that system message and the user
\* message.
C12_OneSystemMessageFirst ==
    pc = "awaiting" =>
        LET m == call.messages
            sys == Msg("system", system_message(call.query_type, call.prompt))
        IN  /\ m[1] = sys
            /\ Cardinality({k \in 1..Len(m) : m[k].role = "system"}) = 1
            /\ (Len(ReadHistory) = 0 /\ ~Truthy(call.context)) =>
                  m = << sys, Msg("user", call.prompt) >>

\* C12 witness: emotion support was asked with "sad" on an empty history and
\* without a context: the request is the template with the polarity of "sad"
\* and the user message.
C12_Witness ==
    /\ pc = "awaiting"
    /\ call.query_type = "emotion_support"
    /\ call.context = None_
    /\ Len(ReadHistory) = 0
    /\ call.messages =
          << Msg("system", system_message("emotion_support", "sad")),
             Msg("user", "sad") >>

----------------------------------------------------------------------------
(* More claims about the chat session (Spec) *)

ClearOps == {"clear_cultural", "clear_emotional"}

\* C14: no step changes both topic histories; a step of a send, a positional
\* delete or a clear on one topic leaves the other topic's history as it was;
\* a clear leaves its own topic's history empty.
C14_TopicIsolation ==
    [][ /\ \/ session_state'["cultural_messages"] = session_state["cultural_messages"]
           \/ session_state'["emotional_messages"] = session_state["emotional_messages"]
        /\ (last'.op \in DeleteLoops \cup ClearOps \cup {"send_begin", "send"}
                /\ last'.key \in TopicKeys) =>
              \A other \in TopicKeys \ {last'.key} :
                  session_state'[other] = session_state[other]
        /\ last'.op \in ClearOps => session_state'[last'.key] = << >> ]_vars

\* C14 witness: with a turn stored in each topic, the emotional history was
\* cleared; the cultural turn is still there.
C14_Witness ==
    /\ last.op = "clear_emotional"
    /\ session_state["emotional_messages"] = << >>
    /\ session_state["cultural_messages"] =
          << Msg("user", "happy"), Msg("assistant", "ERROR:e1") >>
    /\ "emotion_support_messages" \in DOMAIN session_state

----------------------------------------------------------------------------
(* Claims about the shared table (SessionsSpec) *)

\* the row r is the whole of what session s saves
CompleteRow(s, r) ==
    LET f == WriterForm(s)
    IN  /\ r.content = f.content
        /\ r.category = f.category
        /\ r.mood = f.mood
        /\ r.mood_color = MOOD_COLORS[f.mood].color
        /\ r.sentiment_score = MOOD_COLORS[f.mood].score
        /\ r.id \in 1..Len(posts)
        /\ r.timestamp \in 0..now

\* C15: at every point of every interleaving of two publishing sessions and
\* a listing one, the stored ids are pairwise distinct, the table holds one
\* row for every save that has returned (so both posts once both saves have
\* ended), and every row of the last listing is the complete row of one save,
\* with the date that save gave.
C15_ConcurrentSaves ==
    /\ \A i, j \in 1..Len(posts) : i # j => posts[i].id # posts[j].id
    /\ \A s \in Writers :
          /\ conns[s].failed = 0
          /\ Cardinality({i \in 1..Len(posts) :
                 CompleteRow(s, posts[i]) /\ posts[i].post_date = adapt_date(WriterForm(s).date)})
               = conns[s].saved
    /\ \A k \in 1..Len(listed) :
          \E s \in Writers :
              CompleteRow(s, listed[k]) /\ listed[k].post_date = WriterForm(s).date
    /\ \A k, l \in 1..Len(listed) : k # l => listed[k].id # listed[l].id

\* C15 witness: the third session listed the table after the first session's
\* save and while the second session's row was not committed, seeing one
\* row; the second save then ended, and both rows are stored with ids 1 and 2
\* in the same second.
C15_Witness ==
    /\ last.op = "save_commit"
    /\ last.key = "s2"
    /\ conns["s1"].saved = 1
    /\ conns["s2"].saved = 1
    /\ Len(posts) = 2
    /\ posts[1].id = 1 /\ posts[1].content = "happy"
    /\ posts[2].id = 2 /\ posts[2].content = "sad"
    /\ posts[1].timestamp = posts[2].timestamp
    /\ Len(listed) = 1

----------------------------------------------------------------------------
(* Claims about the trend view (PostSpec) *)

\* the stored posts with a given date text, score and colour, and the points
\* of a figure at a given date with that score and colour
PostsLike(text, score, color) ==
    {i \in 1..Len(posts) : /\ posts[i].post_date = text
                           /\ MOOD_COLORS[posts[i].mood].score = score
                           /\ posts[i].mood_color = color}
PointsLike(fig, date, score, color) ==
    {k \in 1..Len(posts) : /\ fig.points[k].x = date
                           /\ fig.points[k].y = score
                           /\ fig.points[k].color = color}

\* C16: every figure the tree-hole page's trend view may draw from its
\* listing has one point per stored post (as many points as posts, and for
\* every stored post as many points at its date with its score and colour as
\* there are such posts), each point's y the score MOOD_COLORS gives the
\* post's mood, a value in 0..100, and its colour the post's mood colour; the
\* points are in ascending order of post date.
C16_TrendPoints ==
    (JustListed /\ Len(posts) > 0) =>
        LET figs == create_mood_tracking_graph(listed)
        IN  /\ \A fig \in figs :
                  /\ fig.kind = "figure"
                  /\ DOMAIN fig.points = 1..Len(posts)
                  /\ \A k \in 1..(Len(posts) - 1) :
                        ymd2ord(fig.points[k].x) <= ymd2ord(fig.points[k + 1].x)
            /\ \A i \in 1..Len(posts) :
                  LET date == parse_date(posts[i].post_date)
                      score == MOOD_COLORS[posts[i].mood].score
                      n == Cardinality(PostsLike(posts[i].post_date, score, posts[i].mood_color))
                  IN  /\ score \in 0..100
                      /\ \A fig \in figs :
                            Cardinality(PointsLike(fig, date, score, posts[i].mood_color)) = n

\* C16 witness: a post dated the 15th was saved a second before two posts
\* dated the 1st; the trend draws the two of the 1st first and the one of the
\* 15th, score 0 and colour #CD5C5C, last.
C16_Witness ==
    /\ JustListed
    /\ Len(posts) = 3
    /\ posts[1].post_date = "2024-03-15" /\ posts[1].mood = "very_sad"
    /\ posts[2].post_date = "2024-03-01" /\ posts[2].mood = "very_happy"
    /\ posts[3].post_date = "2024-03-01" /\ posts[3].mood = "a_bit_low"
    /\ posts[1].timestamp < posts[2].timestamp
    /\ posts[2].timestamp = posts[3].timestamp
    /\ \E fig \in create_mood_tracking_graph(listed) :
          /\ fig.points[1] = [x |-> <<2024, 3, 1>>, y |-> 100, color |-> "#FFD700",
                              text |-> "very_happy"]
          /\ fig.points[2].y = 25
          /\ fig.points[3] = [x |-> <<2024, 3, 15>>, y |-> 0, color |-> "#CD5C5C",
                              text |-> "very_sad"]

----------------------------------------------------------------------------
(* Claims about the listing (PostSpec) *)

\* the steps in which the page calls get_anonymous_posts
ListingStep == last'.op \in {"navigate", "publish"} /\ page' = PageTreeHole

\* C17: after every step in which the page lists the table, the listing has
\* every stored row exactly once (the rows and the listing match one to one,
\* the date read back as the date stored), newest timestamp first; a step
\* that lists without saving leaves the table and its rowid counter as they
\* were, and returns the listing the previous call returned.
C17_ListAll ==
    [][ ListingStep =>
            /\ \E p \in Permutations(1..Len(posts')) :
                  /\ DOMAIN listed' = DOMAIN p
                  /\ \A k \in 1..Len(posts') :
                        [listed'[k] EXCEPT !.post_date = adapt_date(@)] = posts'[p[k]]
            /\ \A k \in 1..(Len(listed') - 1) :
                  listed'[k].timestamp >= listed'[k + 1].timestamp
            /\ (last'.op = "navigate" \/ ~last'.completed) =>
                  /\ posts' = posts
                  /\ seq' = seq
                  /\ listed' = listed ]_vars

\* C17 witness: three posts are stored, the third a second after the first
\* two; the page was left and opened again, and lists the third first, then
\* the first and the second.
C17_Witness ==
    /\ last.op = "navigate"
    /\ page = PageTreeHole
    /\ Len(posts) = 3
    /\ posts[1].timestamp = 0 /\ posts[2].timestamp = 0 /\ posts[3].timestamp = 1
    /\ Len(listed) = 3
    /\ listed[1].id = 3 /\ listed[2].id = 1 /\ listed[3].id = 2
    /\ listed[1].post_date \in Dates

----------------------------------------------------------------------------
(* Claims about a run of the script (RenderSpec) *)

\* the two topic histories of a session
Histories(ss) == <<ss["cultural_messages"], ss["emotional_messages"]>>

\* C18: in a run of the script a step changes the histories only if no
\* removal has happened in the run before; that step is the removal at the
\* position of the clicked button in the list as it was when the click was
\* made (or the clear of the clicked button), and it ends the run: the script
\* starts again with no button pressed, so no button is ever evaluated after
\* a removal of the same run, and a run with no button pressed removes
\* nothing.
C18_OneRemovalPerRun ==
    [][ /\ (run.phase = "running" /\ Histories(session_state') # Histories(session_state)) =>
              /\ run.removed = 0
              /\ run.clicked # ""
              /\ [run' EXCEPT !.assigned = {}] = RunFor("")
              /\ \/ \E l \in 1..Len(PageLoops(page)), idx \in 0..(MaxMsgs - 1) :
                       /\ ButtonKey(PageLoops(page)[l][1], idx) = run.clicked
                       /\ idx < Len(session_state[PageLoops(page)[l][2]])
                       /\ Histories(session_state') =
                             Histories([session_state EXCEPT
                                           ![PageLoops(page)[l][2]] = del_at(@, idx)])
                 \/ \E b \in 1..Len(SidebarButtons) :
                       /\ SidebarButtons[b][1] = run.clicked
                       /\ Histories(session_state') =
                             Histories([session_state EXCEPT
                                           ![SidebarButtons[b][2]] = << >>])
        /\ ~run'.late
        /\ run'.removed = 0 ]_vars

\* C18 witness: on the history page, with two cultural and two emotional
\* messages drawn, the delete button of the second emotional message was
\* clicked; the run passed the cultural loop, removed that message and
\* started again.
C18_Witness ==
    /\ page = PageHistory
    /\ last.op = "delete_emotional_history"
    /\ last.idx = 1
    /\ [run EXCEPT !.assigned = {}] = RunFor("")
    /\ Len(session_state["cultural_messages"]) = 2
    /\ session_state["emotional_messages"] = << Msg("user", "sad") >>

----------------------------------------------------------------------------
(* More claims about the post store (PostSpec) *)

\* C19: every stored post has a post date: no row of the table has a NULL
\* post_date, and no listed row an absent one.
C19_EveryPostHasDate ==
    /\ \A i \in 1..Len(posts) : posts[i].post_date # None_
    /\ \A k \in 1..Len(listed) : listed[k].post_date # NoDate

\* C19 witness: two posts were published with the dates picked in the date
\* input, and both are stored and listed with those dates.
C19_Witness ==
    /\ last.op = "publish"
    /\ last.completed
    /\ Len(posts) = 2
    /\ posts[1].post_date = "2024-03-01"
    /\ posts[2].post_date = "2024-03-15"
    /\ {listed[k].post_date : k \in 1..Len(listed)} = {<<2024, 3, 1>>, <<2024, 3, 15>>}

----------------------------------------------------------------------------
(* Claims about the cultural page's context (Spec) *)

\* the context string of lines 417-423 for a situation type named `name`
ContextNaming(name, ss) ==
    "situation_type=" \o name
        \o " current_status=" \o ss["current_status"]
        \o " emotional_state=" \o ss["emotional_state"]

\* C20: the context of a cultural-advice request in flight names the
\* situation type selected in the selectbox at the time of sending, by its
\* short name or by the option's text, and the request carries that context
\* as its second message.
C20_ContextNamesSelectedType ==
    (pc = "awaiting" /\ call.caller = "cultural_messages") =>
        /\ call.context \in
              { ContextNaming(SITUATION_TYPES[session_state["situation_input"]], session_state),
                ContextNaming(session_state["situation_input"], session_state) }
        /\ call.messages[2] = Msg("user", ContextPrefix \o call.context)

----------------------------------------------------------------------------
(* Claims about the month of the calendar (MonthSpec) *)

\* the number of calendar days of a month: from its first day to the first
\* day of the month after it
CalendarDays(m) ==
    LET following == IF m[2] = 12 THEN <<m[1] + 1, 1, 1>> ELSE <<m[1], m[2] + 1, 1>>
    IN  ymd2ord(following) - ymd2ord(<<m[1], m[2], 1>>)

\* C21: whenever the tree-hole page is drawn over a table that is not empty,
\* the calendar is a figure with exactly one cell per calendar day of one
\* month, the month of a post with the latest creation timestamp; the cell
\* of day k is at row k and stands for that day; the cell of a day no stored
\* post is dated on has the colour #EAEAEA, and the cell of a day with posts
\* has the mood colour of a post dated on that day.
C21_OneCellPerDayOfTargetMonth ==
    (page = PageTreeHole /\ Len(posts) > 0) =>
        LET fig == create_mood_calendar(listed)
            newest == {i \in 1..Len(posts) :
                          \A j \in 1..Len(posts) : posts[j].timestamp <= posts[i].timestamp}
        IN  /\ fig.kind = "figure"
            /\ \E i \in newest :
                  LET m == to_period_M(parse_date(posts[i].post_date))
                  IN  /\ DOMAIN fig.traces = 1..CalendarDays(m)
                      /\ \A day \in DOMAIN fig.traces :
                            LET cell == fig.traces[day]
                                on == {j \in 1..Len(posts) :
                                          parse_date(posts[j].post_date) = <<m[1], m[2], day>>}
                            IN  /\ cell.y = day
                                /\ cell.date = <<m[1], m[2], day>>
                                /\ IF on = {}
                                   THEN cell.color = "#EAEAEA"
                                   ELSE cell.color \in {posts[j].mood_color : j \in on}

\* C21 witness: a post dated 2024-03-15 and a post dated 2024-04-30 were
\* published, and a second later one dated 2024-02-29; the calendar has the
\* 29 cells of February 2024, the 29th in the colour of the last post, the
\* 15th and the 28th in the no-data colour.
C21_Witness ==
    /\ page = PageTreeHole
    /\ Len(posts) = 3
    /\ posts[1].post_date = "2024-03-15"
    /\ posts[2].post_date = "2024-04-30"
    /\ posts[3].post_date = "2024-02-29"
    /\ posts[3].mood_color = "#FFD700"
    /\ posts[3].timestamp > posts[2].timestamp
    /\ create_mood_calendar(listed).kind = "figure"
    /\ Len(create_mood_calendar(listed).traces) = 29
    /\ create_mood_calendar(listed).traces[29].color = "#FFD700"
    /\ create_mood_calendar(listed).traces[15].color = "#EAEAEA"
    /\ create_mood_calendar(listed).traces[28].color = "#EAEAEA"

----------------------------------------------------------------------------
(* Claims about the shape of the topic histories (Spec) *)

DeleteOps == {"delete_cultural", "delete_emotional",
              "delete_cultural_history", "delete_emotional_history"}

\* what a chat handler can receive from generate_response: a completion, or
\* the text made of an exception
ResponseTexts == Replies \cup {ErrPrefix \o e : e \in Failures}

\* user, assistant, user, assistant, ...: even length, roles by position
Alternates(h) ==
    /\ Len(h) % 2 = 0
    /\ \A k \in 1..Len(h) : h[k].role = (IF k % 2 = 1 THEN "user" ELSE "assistant")

\* C22: (1) in every reachable state each message of the two topic histories
\* is a user message holding a text the user typed or an assistant message
\* holding a response: no system message, no context message.  (2) Every
\* chat send that ends, the boundary call having returned or raised, ends
\* completed and leaves its topic's history as it was plus two messages, the
\* user's text then the response (the exception's text after the error prefix
\* when the call raised), and leaves the other history alone.  (3) Both
\* histories alternate user, assistant with even length at the start, and
\* every step other than a press of a delete button keeps a history
\* alternating.
C22_HistoryShape ==
    /\ [](\A key \in TopicKeys : \A k \in 1..Len(session_state[key]) :
              LET msg == session_state[key][k]
              IN  \/ msg.role = "user" /\ msg.content \in UserTexts
                  \/ msg.role = "assistant" /\ msg.content \in ResponseTexts)
    /\ \A key \in TopicKeys : Alternates(session_state[key])
    /\ [][ /\ (last'.op = "send" /\ last'.key \in TopicKeys) =>
                /\ last'.completed
                /\ session_state'[last'.key] =
                      session_state[last'.key] \o
                          << Msg("user", call.prompt),
                             Msg("assistant", IF last'.llm_ok THEN last'.llm_text
                                              ELSE ErrPrefix \o last'.llm_text) >>
                /\ \A key \in TopicKeys \ {last'.key} :
                      session_state'[key] = session_state[key]
           /\ \A key \in TopicKeys :
                (Alternates(session_state[key]) /\ last'.op \notin DeleteOps)
                    => Alternates(session_state'[key]) ]_vars

\* C22 witness: two sends on the cultural page, the first answered and the
\* second failed, with no deletion: the history is user, assistant, user,
\* assistant, the last reply being the error text.
C22_Witness ==
    /\ last.op = "send"
    /\ last.key = "cultural_messages"
    /\ ~last.llm_ok
    /\ session_state["cultural_messages"] =
          << Msg("user", "happy"), Msg("assistant", "r1"),
             Msg("user", "sad"), Msg("assistant", ErrPrefix \o "e1") >>
    /\ session_state["emotional_messages"] = << >>

====
